---- MODULE Spec2Model ----
(***************************************************************************)
(* A model of the run / debug commands of coc-wgsl-analyzer:               *)
(*   runSingle    builds a command line from a runnable and sends it to    *)
(*                the single shared run terminal;                          *)
(*   debugSingle  re-invokes the build tool with JSON output, scans its    *)
(*                stdout for the artifact to debug and launches the        *)
(*                configured debugger.                                     *)
(* Every async function is cut at its awaits: one action per synchronous   *)
(* stretch of code between two awaits.                                     *)
(***************************************************************************)
EXTENDS Integers, Sequences, FiniteSets, TLC

VARIABLES
  document,   \* languageId of the active document (workspace.getCurrentState)
  heap,       \* the runnable objects held by the callers, by reference
  config,     \* ctx.config: terminal.startinsert, debug.runtime
  terminal,   \* the module-level slot `let terminal` (0 = undefined)
  terminals,  \* every terminal window.createTerminal has created, in order
  calls,      \* the invocations of runSingle / debugSingle, by call id
  stdout,     \* the lines the spawned build tool writes to stdout
  stderr,     \* the lines the spawned build tool writes to stderr
  progress,   \* the messages reported through progress.report
  launches,   \* the debugger launch calls made (nvim.command / call / lua)
  events,     \* what the commands show to the user and ask of the server
  ctx,        \* the Ctx object: usingSystemServer, client, globalState
  env,        \* platform, settings and the server binaries on disk
  update      \* the invocation of startServer / serverVersion / checkUpdate /
              \* installServerFromGitHub in progress, or the last one made

\* the state of the server binary's lifecycle management
updater == <<ctx, env, update>>

\* the state of the run and debug commands
runner == <<document, heap, config, terminal, terminals, calls, stdout, stderr,
            progress, launches, events>>

vars == <<document, heap, config, terminal, terminals, calls, stdout, stderr,
          progress, launches, events, updater>>

-----------------------------------------------------------------------------
(* Bounds *)

MaxCalls == 2
MaxLines == 3
MaxArgs == 3

\* JavaScript's undefined / null, for string-valued slots
Undefined == "<undefined>"

-----------------------------------------------------------------------------
(* Runnables (lsp_ext.ts) *)

WebbyRunnable(label, webbyArgs, executableArgs, cwd) ==
  [kind |-> "webby", label |-> label, program |-> Undefined, args |-> <<>>,
   webbyArgs |-> webbyArgs, executableArgs |-> executableArgs,
   cwd |-> cwd, environment |-> {<<"WGPU_BACKEND", "vulkan">>}]

ShellRunnable(label, program, args, cwd) ==
  [kind |-> "shell", label |-> label, program |-> program, args |-> args,
   webbyArgs |-> <<>>, executableArgs |-> <<>>,
   cwd |-> cwd, environment |-> {<<"WGPU_BACKEND", "vulkan">>}]

\* the value of a call's `runnable` parameter before the call is made
NoRunnable ==
  [kind |-> "none", label |-> "", program |-> Undefined, args |-> <<>>,
   webbyArgs |-> <<>>, executableArgs |-> <<>>, cwd |-> "", environment |-> {}]

\* Array.prototype.join
RECURSIVE Join(_, _)
Join(seq, sep) ==
  IF Len(seq) = 0 THEN ""
  ELSE IF Len(seq) = 1 THEN seq[1]
  ELSE seq[1] \o sep \o Join(Tail(seq), sep)

\* runnable.args['executableArgs'][0] = `'${runnable.args['executableArgs'][0]}'`
QuoteFirst(executableArgs) ==
  [executableArgs EXCEPT ![1] = "'" \o @ \o "'"]

\* the runnable object after the argument list has been built from it
MutateRunnable(r) ==
  IF r.kind = "webby" /\ Len(r.executableArgs) > 0
  THEN [r EXCEPT !.executableArgs = QuoteFirst(@)]
  ELSE r

\* runSingle's `args`, had every executable argument been quoted
RunSingleArgs_QuoteAll(r) ==
  IF r.kind = "webby"
  THEN IF Len(r.executableArgs) > 0
       THEN r.webbyArgs \o <<"--">>
              \o [k \in DOMAIN r.executableArgs |->
                    "'" \o r.executableArgs[k] \o "'"]
       ELSE r.webbyArgs
  ELSE r.args

\* runSingle's `args`
RunSingleArgs(r) ==
  IF r.kind = "webby"
  THEN LET m == MutateRunnable(r)
       IN  IF Len(r.executableArgs) > 0
           THEN r.webbyArgs \o <<"--">> \o m.executableArgs
           ELSE r.webbyArgs
  ELSE r.args

\* runSingle's `cmd`
RunSingleCmd(r, args) == r.kind \o " " \o Join(args, " ")

\* runSingle's TerminalOptions
RunSingleOpt(r) == [name |-> r.label, cwd |-> r.cwd]

-----------------------------------------------------------------------------
(* The server binary is of no concern to the run and debug commands *)

\* no lifecycle function has been invoked
IdleUpdate ==
  [op |-> "none", auto |-> FALSE, pc |-> "idle", latest |-> Undefined,
   old |-> Undefined, ret |-> 0, bin |-> Undefined, error |-> "",
   log |-> <<>>, downloaded |-> FALSE, clientBefore |-> "undefined",
   releaseBefore |-> Undefined, bundledBefore |-> Undefined]

\* the bundled server of release v1 is running
NoUpdater ==
  /\ ctx = [usingSystemServer |-> FALSE, client |-> "running",
            release |-> "v1"]
  /\ env = [platform |-> "linux", serverPath |-> Undefined,
            prompt |-> "true", checkOnStartup |-> TRUE,
            configured |-> Undefined, bundled |-> "v1",
            system |-> Undefined, versionStderr |-> ""]
  /\ update = IdleUpdate

-----------------------------------------------------------------------------
(* Calls *)

CallIds == DOMAIN calls

IdleCall ==
  [op |-> "none", pc |-> "idle", runnable |-> 0, entry |-> NoRunnable,
   args |-> <<>>, cmd |-> "", opt |-> [name |-> "", cwd |-> ""], term |-> 0,
   spawned |-> FALSE, program |-> Undefined,
   expectedKind |-> Undefined, expectedName |-> Undefined,
   pos |-> 0, errPos |-> 0, executable |-> Undefined, error |-> "",
   command |-> "none", runnables |-> <<>>]

Undisposed == {t \in DOMAIN terminals : terminals[t].disposed = 0}

-----------------------------------------------------------------------------
(* runSingle *)

\* the command is invoked with a runnable (r = 0: no runnable) and suspends
\* at `await workspace.getCurrentState()`
RunSingleCall(i, r) ==
  /\ calls[i].pc = "idle"
  /\ calls' = [calls EXCEPT ![i] = [@ EXCEPT !.op = "runSingle",
                                             !.pc = "getCurrentState",
                                             !.runnable = r]]
  /\ UNCHANGED <<document, heap, config, terminal, terminals, stdout, stderr,
                 progress, launches, events,
                 updater>>

\* from the guard to `await window.createTerminal(opt)`
RunSingleBuild(i) ==
  /\ calls[i].op = "runSingle"
  /\ calls[i].pc = "getCurrentState"
  /\ IF calls[i].runnable = 0 \/ document # "wgsl"
     THEN /\ calls' = [calls EXCEPT ![i].pc = "done"]
          /\ UNCHANGED <<heap, terminal, terminals>>
     ELSE LET r    == heap[calls[i].runnable]
              args == RunSingleArgs(r)
          IN  /\ heap' = [heap EXCEPT ![calls[i].runnable] = MutateRunnable(r)]
              /\ terminals' = IF terminal # 0
                              THEN [terminals EXCEPT ![terminal].disposed = @ + 1]
                              ELSE terminals
              /\ terminal' = 0
              /\ calls' = [calls EXCEPT ![i] =
                             [@ EXCEPT !.pc = "createTerminal",
                                       !.entry = r,
                                       !.args = args,
                                       !.cmd = RunSingleCmd(r, args),
                                       !.opt = RunSingleOpt(r)]]
  /\ UNCHANGED <<document, config, stdout, stderr, progress, launches, events,
                 updater>>

\* createTerminal resolves: the terminal is stored, the command line is sent
RunSingleCreated(i) ==
  /\ calls[i].op = "runSingle"
  /\ calls[i].pc = "createTerminal"
  /\ LET t == Len(terminals) + 1
     IN  /\ terminals' = Append(terminals,
                                [opt |-> calls[i].opt, disposed |-> 0,
                                 sent |-> <<calls[i].cmd>>])
         /\ terminal' = t
         /\ calls' = [calls EXCEPT ![i] =
                        [@ EXCEPT !.term = t,
                                  !.pc = IF config.startinsert
                                         THEN "startinsert" ELSE "done"]]
  /\ UNCHANGED <<document, heap, config, stdout, stderr, progress, launches, events,
                 updater>>

\* `await workspace.nvim.command('startinsert')` resolves
RunSingleReturn(i) ==
  /\ calls[i].op = "runSingle"
  /\ calls[i].pc = "startinsert"
  /\ calls' = [calls EXCEPT ![i].pc = "done"]
  /\ UNCHANGED <<document, heap, config, terminal, terminals, stdout, stderr,
                 progress, launches, events,
                 updater>>

-----------------------------------------------------------------------------
(* The run path *)

RunRunnables ==
  { WebbyRunnable("run app", <<"run">>, ea, "/ws") :
      ea \in {<<>>, <<"a b">>, <<"x", "y">>} }
  \cup
  { WebbyRunnable("test app", <<"test", "--bin", "app">>, ea, "/ws/app") :
      ea \in {<<>>, <<"t1">>} }
  \cup
  { ShellRunnable("shell", "sh", a, "/ws") : a \in {<<>>, <<"-c", "ls">>} }

Init ==
  /\ document \in {"wgsl", "toml"}
  /\ heap \in [{1, 2} -> RunRunnables]
  /\ config \in [startinsert : BOOLEAN, runtime : {"termdebug"}]
  /\ terminal = 0
  /\ terminals = <<>>
  /\ calls = [i \in 1 .. MaxCalls |-> IdleCall]
  /\ stdout = <<>>
  /\ stderr = <<>>
  /\ progress = <<>>
  /\ launches = <<>>
  /\ events = <<>>
  /\ NoUpdater

Next ==
  \/ \E i \in CallIds, r \in {0} \cup DOMAIN heap : RunSingleCall(i, r)
  \/ \E i \in CallIds : RunSingleBuild(i)
  \/ \E i \in CallIds : RunSingleCreated(i)
  \/ \E i \in CallIds : RunSingleReturn(i)

Spec == Init /\ [][Next]_vars

-----------------------------------------------------------------------------
(* Build-tool messages: one line of the build tool's stdout *)

NoTarget == [present |-> FALSE, kind |-> <<>>, name |-> Undefined]

Target(kind, name) == [present |-> TRUE, kind |-> kind, name |-> name]

\* the values JSON.parse can return, as far as debugSingle looks into them
JsNull == [type |-> "null", reason |-> Undefined, target |-> NoTarget,
           executable |-> Undefined]

JsNumber == [type |-> "number", reason |-> Undefined, target |-> NoTarget,
             executable |-> Undefined]

JsObject(reason, target, executable) ==
  [type |-> "object", reason |-> reason, target |-> target,
   executable |-> executable]

\* a line of text: empty, not JSON, or the JSON text of a value
BlankLine == [raw |-> "", json |-> JsNull]

GarbageLine == [raw |-> "not-json", json |-> JsNull]

JsonLine(value) == [raw |-> "json", json |-> value]

\* JSON.parse(line): the value, or a SyntaxError
JSONParse(line) ==
  IF line.raw = "json"
  THEN [ok |-> TRUE, value |-> line.json]
  ELSE [ok |-> FALSE, value |-> JsNull]

\* Array.prototype.includes
Includes(seq, x) == \E k \in DOMAIN seq : seq[k] = x

\* one iteration, had the name filter been left out
ScanLine_NoNameFilter(line, expectedKind, expectedName) ==
  LET Continue == [act |-> "continue", executable |-> Undefined]
      Throw    == [act |-> "throw", executable |-> Undefined]
      parsed   == JSONParse(line)
      m        == parsed.value
  IN  IF line.raw = "" THEN Continue
      ELSE IF ~parsed.ok THEN Continue
      ELSE IF m.type = "null" THEN Throw
      ELSE IF m.reason # "compiler-artifact" THEN Continue
      ELSE IF expectedKind # Undefined /\ ~m.target.present THEN Throw
      ELSE IF expectedKind # Undefined /\ ~Includes(m.target.kind, expectedKind)
           THEN Continue
      ELSE IF m.executable # Undefined /\ m.executable # ""
           THEN [act |-> "break", executable |-> m.executable]
      ELSE Continue

\* one iteration, had the SyntaxError of JSON.parse not been caught
ScanLine_ParseErrorThrows(line, expectedKind, expectedName) ==
  LET Continue == [act |-> "continue", executable |-> Undefined]
      Throw    == [act |-> "throw", executable |-> Undefined]
      parsed   == JSONParse(line)
      m        == parsed.value
  IN  IF line.raw = "" THEN Continue
      ELSE IF ~parsed.ok THEN Throw
      ELSE IF m.type = "null" THEN Throw
      ELSE IF m.reason # "compiler-artifact" THEN Continue
      ELSE IF expectedKind # Undefined /\ ~m.target.present THEN Throw
      ELSE IF expectedKind # Undefined /\ ~Includes(m.target.kind, expectedKind)
           THEN Continue
      ELSE IF expectedName # Undefined /\ ~m.target.present THEN Throw
      ELSE IF expectedName # Undefined /\ m.target.name # expectedName
           THEN Continue
      ELSE IF m.executable # Undefined /\ m.executable # ""
           THEN [act |-> "break", executable |-> m.executable]
      ELSE Continue

\* one iteration of `for await (const line of rl)`: continue, break with the
\* executable, or an uncaught TypeError
ScanLine(line, expectedKind, expectedName) ==
  LET Continue == [act |-> "continue", executable |-> Undefined]
      Throw    == [act |-> "throw", executable |-> Undefined]
      parsed   == JSONParse(line)
      m        == parsed.value
  IN  IF line.raw = "" THEN Continue
      ELSE IF ~parsed.ok THEN Continue
      ELSE IF m.type = "null" THEN Throw
      ELSE IF m.reason # "compiler-artifact" THEN Continue
      ELSE IF expectedKind # Undefined /\ ~m.target.present THEN Throw
      ELSE IF expectedKind # Undefined /\ ~Includes(m.target.kind, expectedKind)
           THEN Continue
      ELSE IF expectedName # Undefined /\ ~m.target.present THEN Throw
      ELSE IF expectedName # Undefined /\ m.target.name # expectedName
           THEN Continue
      ELSE IF m.executable # Undefined /\ m.executable # ""
           THEN [act |-> "break", executable |-> m.executable]
      ELSE Continue

\* the whole loop over the lines from position k on, and the check after it
RECURSIVE ScanFrom(_, _, _, _)
ScanFrom(lines, k, expectedKind, expectedName) ==
  IF k > Len(lines)
  THEN [outcome |-> "error", executable |-> Undefined,
        error |-> "Could not find executable", line |-> 0]
  ELSE LET step == ScanLine(lines[k], expectedKind, expectedName)
       IN  IF step.act = "break"
           THEN [outcome |-> "resolved", executable |-> step.executable,
                 error |-> "", line |-> k]
           ELSE IF step.act = "throw"
           THEN [outcome |-> "error", executable |-> Undefined,
                 error |-> "TypeError", line |-> k]
           ELSE ScanFrom(lines, k + 1, expectedKind, expectedName)

-----------------------------------------------------------------------------
(* debugSingle: the build-tool arguments and the expected kind / name *)

\* debugSingle's `args`, had `run` been left in place
DebugSingleArgs_KeepRun(r) ==
  LET m    == MutateRunnable(r)
      base == IF r.kind = "webby"
              THEN IF Len(r.executableArgs) > 0
                   THEN r.webbyArgs \o <<"--">> \o m.executableArgs
                   ELSE r.webbyArgs
              ELSE r.args
      noRun == IF Len(base) > 0 /\ base[1] = "test"
               THEN Append(base, "--no-run") ELSE base
  IN  Append(noRun, "--message-format=json")

\* debugSingle's `args` as passed to spawn
DebugSingleArgs(r) ==
  LET m    == MutateRunnable(r)
      base == IF r.kind = "webby"
              THEN IF Len(r.executableArgs) > 0
                   THEN r.webbyArgs \o <<"--">> \o m.executableArgs
                   ELSE r.webbyArgs
              ELSE r.args
      noRun == IF Len(base) > 0 /\ base[1] = "test"
               THEN Append(base, "--no-run") ELSE base
      build == IF Len(noRun) > 0 /\ noRun[1] = "run"
               THEN [noRun EXCEPT ![1] = "build"] ELSE noRun
  IN  Append(build, "--message-format=json")

\* the switch over the kind flags
KindOfFlag(arg) ==
  CASE arg = "--bin" -> "bin"
    [] arg = "--lib" -> "lib"
    [] arg = "--test" -> "test"
    [] arg = "--example" -> "example"
    [] arg = "--bench" -> "bench"
    [] OTHER -> Undefined

\* the first loop over webbyArgs, from position k on
RECURSIVE KindScan(_, _, _)
KindScan(webbyArgs, k, expectedKind) ==
  IF k > Len(webbyArgs)
  THEN [kind |-> expectedKind, name |-> Undefined]
  ELSE IF expectedKind = Undefined
  THEN KindScan(webbyArgs, k + 1, KindOfFlag(webbyArgs[k]))
  ELSE [kind |-> expectedKind,
        name |-> IF expectedKind # "lib" THEN webbyArgs[k] ELSE Undefined]

\* the second loop over webbyArgs, from position k on
RECURSIVE PackageScan(_, _, _)
PackageScan(webbyArgs, k, foundPackageArgument) ==
  IF k > Len(webbyArgs) THEN Undefined
  ELSE IF foundPackageArgument THEN webbyArgs[k]
  ELSE PackageScan(webbyArgs, k + 1, webbyArgs[k] = "--package")

\* expectedKind and expectedName, had the token after the flag been taken
\* as the name for `--lib` too
ExpectedFilter_LibNamed(r) ==
  LET webbyArgs == IF r.kind = "webby" THEN r.webbyArgs ELSE <<>>
      first     == KindScan(webbyArgs, 1, Undefined)
      k         == IF first.kind = "lib"
                   THEN CHOOSE n \in DOMAIN webbyArgs :
                          /\ webbyArgs[n] = "--lib"
                          /\ \A l \in 1 .. n - 1 : KindOfFlag(webbyArgs[l]) = Undefined
                   ELSE 0
      name      == IF first.kind = "lib" /\ k < Len(webbyArgs)
                   THEN webbyArgs[k + 1] ELSE first.name
  IN  [kind |-> first.kind,
       name |-> IF name = Undefined
                THEN PackageScan(webbyArgs, 1, FALSE)
                ELSE name]

\* expectedKind and expectedName
ExpectedFilter(r) ==
  LET webbyArgs == IF r.kind = "webby" THEN r.webbyArgs ELSE <<>>
      first     == KindScan(webbyArgs, 1, Undefined)
  IN  [kind |-> first.kind,
       name |-> IF first.name = Undefined
                THEN PackageScan(webbyArgs, 1, FALSE)
                ELSE first.name]

-----------------------------------------------------------------------------
(* debugSingle *)

\* the command is invoked with a runnable and suspends at
\* `await workspace.getCurrentState()`
DebugSingleCall(i, r) ==
  /\ calls[i].pc = "idle"
  /\ calls' = [calls EXCEPT ![i] = [@ EXCEPT !.op = "debugSingle",
                                             !.pc = "getCurrentState",
                                             !.runnable = r]]
  /\ UNCHANGED <<document, heap, config, terminal, terminals, stdout, stderr,
                 progress, launches, events,
                 updater>>

\* from the guard to the first `for await` on the build tool's stdout
DebugSingleSpawn(i) ==
  /\ calls[i].op = "debugSingle"
  /\ calls[i].pc = "getCurrentState"
  /\ IF calls[i].runnable = 0 \/ document # "wgsl"
     THEN /\ calls' = [calls EXCEPT ![i].pc = "done"]
          /\ UNCHANGED heap
     ELSE LET r      == heap[calls[i].runnable]
              filter == ExpectedFilter(r)
          IN  /\ heap' = [heap EXCEPT ![calls[i].runnable] = MutateRunnable(r)]
              /\ calls' = [calls EXCEPT ![i] =
                             [@ EXCEPT !.pc = "scan",
                                       !.entry = r,
                                       !.args = DebugSingleArgs(r),
                                       !.program = r.kind,
                                       !.spawned = TRUE,
                                       !.expectedKind = filter.kind,
                                       !.expectedName = filter.name]]
  /\ UNCHANGED <<document, config, terminal, terminals, stdout, stderr,
                 progress, launches, events,
                 updater>>

\* the argument string handed to the debugger
DebugExecutableArgs(r) ==
  IF r.kind = "webby" THEN Join(r.executableArgs, " ") ELSE ""

\* the dispatch, had an unknown runtime fallen back to termdebug
DebugLaunch_Fallback(i, executable) ==
  LET executableArgs == DebugExecutableArgs(heap[calls[i].runnable])
      via == CASE config.runtime = "vimspector" -> "vimspector#LaunchWithSettings"
               [] config.runtime = "nvim-dap" -> "dap.run"
               [] OTHER -> "TermdebugCommand"
  IN  /\ launches' = Append(launches,
                            [call |-> i, via |-> via,
                             executable |-> executable,
                             args |-> executableArgs])
      /\ calls' = [calls EXCEPT ![i] =
                     [@ EXCEPT !.pc = "launch",
                               !.executable = executable,
                               !.pos = @ + 1]]

\* the dispatch on ctx.config.debug.runtime
DebugLaunch(i, executable) ==
  LET executableArgs == DebugExecutableArgs(heap[calls[i].runnable])
      via == CASE config.runtime = "termdebug" -> "TermdebugCommand"
               [] config.runtime = "vimspector" -> "vimspector#LaunchWithSettings"
               [] config.runtime = "nvim-dap" -> "dap.run"
               [] OTHER -> Undefined
  IN  IF via # Undefined
      THEN /\ launches' = Append(launches,
                                 [call |-> i, via |-> via,
                                  executable |-> executable,
                                  args |-> executableArgs])
           /\ calls' = [calls EXCEPT ![i] =
                          [@ EXCEPT !.pc = "launch",
                                    !.executable = executable,
                                    !.pos = @ + 1]]
      ELSE /\ launches' = launches
           /\ calls' = [calls EXCEPT ![i] =
                          [@ EXCEPT !.pc = "failed",
                                    !.executable = executable,
                                    !.pos = @ + 1,
                                    !.error = "Invalid debug runtime"]]

\* the stdout reader delivers the next line
DebugSingleLine(i) ==
  /\ calls[i].op = "debugSingle"
  /\ calls[i].pc = "scan"
  /\ calls[i].pos < Len(stdout)
  /\ LET step == ScanLine(stdout[calls[i].pos + 1],
                          calls[i].expectedKind, calls[i].expectedName)
     IN  CASE step.act = "continue" ->
                /\ calls' = [calls EXCEPT ![i].pos = @ + 1]
                /\ UNCHANGED launches
           [] step.act = "throw" ->
                /\ calls' = [calls EXCEPT ![i] =
                               [@ EXCEPT !.pc = "failed",
                                         !.pos = @ + 1,
                                         !.error = "TypeError"]]
                /\ UNCHANGED launches
           [] step.act = "break" -> DebugLaunch(i, step.executable)
  /\ UNCHANGED <<document, heap, config, terminal, terminals, stdout, stderr,
                 progress, events,
                 updater>>

\* the end of the stream, had the loop been left only once the stderr reader
\* is through
DebugSingleEnd_AwaitsStderr(i) ==
  /\ calls[i].op = "debugSingle"
  /\ calls[i].pc = "scan"
  /\ calls[i].pos = Len(stdout)
  /\ calls[i].errPos = Len(stderr)
  /\ calls' = [calls EXCEPT ![i] =
                 [@ EXCEPT !.pc = "failed",
                           !.error = "Could not find executable"]]
  /\ UNCHANGED <<document, heap, config, terminal, terminals, stdout, stderr,
                 progress, launches, events,
                 updater>>

\* the stdout reader reports the end of the stream
DebugSingleEnd(i) ==
  /\ calls[i].op = "debugSingle"
  /\ calls[i].pc = "scan"
  /\ calls[i].pos = Len(stdout)
  /\ calls' = [calls EXCEPT ![i] =
                 [@ EXCEPT !.pc = "failed",
                           !.error = "Could not find executable"]]
  /\ UNCHANGED <<document, heap, config, terminal, terminals, stdout, stderr,
                 progress, launches, events,
                 updater>>

\* the awaited debugger call resolves
DebugSingleReturn(i) ==
  /\ calls[i].op = "debugSingle"
  /\ calls[i].pc = "launch"
  /\ calls' = [calls EXCEPT ![i].pc = "done"]
  /\ UNCHANGED <<document, heap, config, terminal, terminals, stdout, stderr,
                 progress, launches, events,
                 updater>>

\* the stderr reader, had a non-blank stderr line ended the build
StderrLine_FailsBuild(i) ==
  /\ calls[i].spawned
  /\ calls[i].errPos < Len(stderr)
  /\ LET line == stderr[calls[i].errPos + 1]
     IN  IF line.indent = 0 /\ line.text = ""
         THEN /\ progress' = progress
              /\ calls' = [calls EXCEPT ![i].errPos = @ + 1]
         ELSE /\ progress' = Append(progress, line.text)
              /\ calls' = [calls EXCEPT ![i] =
                             [@ EXCEPT !.errPos = @ + 1,
                                       !.pc = IF @ = "scan" THEN "failed" ELSE @,
                                       !.error = IF calls[i].pc = "scan"
                                                 THEN "Build failed" ELSE @]]
  /\ UNCHANGED <<document, heap, config, terminal, terminals, stdout, stderr,
                 launches, events,
                 updater>>

\* the stderr reader inside window.withProgress delivers the next line
StderrLine(i) ==
  /\ calls[i].spawned
  /\ calls[i].errPos < Len(stderr)
  /\ LET line == stderr[calls[i].errPos + 1]
     IN  progress' = IF line.indent = 0 /\ line.text = ""
                     THEN progress
                     ELSE Append(progress, line.text)
  /\ calls' = [calls EXCEPT ![i].errPos = @ + 1]
  /\ UNCHANGED <<document, heap, config, terminal, terminals, stdout, stderr,
                 launches, events,
                 updater>>

-----------------------------------------------------------------------------
(* The debug path, over the build tool's outputs *)

Artifact(kind, name, executable) ==
  JsonLine(JsObject("compiler-artifact", Target(<<kind>>, name), executable))

StdoutLines ==
  { BlankLine,
    GarbageLine,
    JsonLine(JsNull),
    JsonLine(JsNumber),
    JsonLine(JsObject(Undefined, NoTarget, Undefined)),
    JsonLine(JsObject("build-finished", NoTarget, Undefined)),
    JsonLine(JsObject("compiler-artifact", NoTarget, "/z")),
    Artifact("bin", "foo", "/x"),
    Artifact("bin", "bar", "/y"),
    Artifact("lib", "foo", Undefined) }

RECURSIVE SeqsUpTo(_, _)
SeqsUpTo(S, n) ==
  IF n = 0 THEN {<<>>}
  ELSE LET shorter == SeqsUpTo(S, n - 1)
       IN  shorter \cup {Append(s, x) : s \in shorter, x \in S}

StderrStream == << [indent |-> 0, text |-> ""],
                   [indent |-> 3, text |-> "Compiling foo"] >>

DebugRunnables ==
  { WebbyRunnable("run foo", <<"run", "--bin", "foo">>, <<"a">>, "/ws"),
    WebbyRunnable("test", <<"test">>, <<>>, "/ws"),
    WebbyRunnable("test foo", <<"test", "--bin", "foo">>, <<"t1", "t 2">>, "/ws"),
    ShellRunnable("shell", "sh", <<"run">>, "/ws") }

InitDebug ==
  /\ document = "wgsl"
  /\ heap \in [{1} -> DebugRunnables]
  /\ config \in [startinsert : {FALSE}, runtime : {"termdebug", "gdb"}]
  /\ terminal = 0
  /\ terminals = <<>>
  /\ calls = [i \in {1} |-> IdleCall]
  /\ stdout \in SeqsUpTo(StdoutLines, MaxLines)
  /\ stderr = StderrStream
  /\ progress = <<>>
  /\ launches = <<>>
  /\ events = <<>>
  /\ NoUpdater

NextDebug ==
  \/ \E i \in CallIds, r \in {0} \cup DOMAIN heap : DebugSingleCall(i, r)
  \/ \E i \in CallIds : DebugSingleSpawn(i)
  \/ \E i \in CallIds : DebugSingleLine(i)
  \/ \E i \in CallIds : DebugSingleEnd(i)
  \/ \E i \in CallIds : DebugSingleReturn(i)
  \/ \E i \in CallIds : StderrLine(i)

SpecDebug == InitDebug /\ [][NextDebug]_vars

-----------------------------------------------------------------------------
(* The debug path, over the build tool's stderr *)

StderrLines ==
  { [indent |-> 0, text |-> ""],
    [indent |-> 3, text |-> "Compiling foo"],
    [indent |-> 0, text |-> "error: could not compile"] }

StderrStdouts ==
  { <<>>,
    <<GarbageLine, Artifact("lib", "bar", "/y"), Artifact("bin", "foo", "/x")>>,
    <<Artifact("bin", "bar", "/y"), JsonLine(JsNull),
      Artifact("bin", "foo", "/x")>>,
    <<BlankLine, Artifact("bin", "foo", "")>> }

InitStderr ==
  /\ document = "wgsl"
  /\ heap \in [{1} -> { WebbyRunnable("run foo", <<"run", "--bin", "foo">>,
                                       <<"a">>, "/ws"),
                        ShellRunnable("shell", "sh", <<"build.sh">>, "/ws") }]
  /\ config \in [startinsert : {FALSE}, runtime : {"nvim-dap", "gdb"}]
  /\ terminal = 0
  /\ terminals = <<>>
  /\ calls = [i \in {1} |-> IdleCall]
  /\ stdout \in StderrStdouts
  /\ stderr \in SeqsUpTo(StderrLines, MaxLines)
  /\ progress = <<>>
  /\ launches = <<>>
  /\ events = <<>>
  /\ NoUpdater

SpecStderr == InitStderr /\ [][NextDebug]_vars

\* the event loop serves the stdout reader and the awaited debugger call;
\* nothing is assumed about the stderr reader
StdoutFairness ==
  /\ WF_vars(\E i \in CallIds : DebugSingleSpawn(i))
  /\ WF_vars(\E i \in CallIds : DebugSingleLine(i))
  /\ WF_vars(\E i \in CallIds : DebugSingleEnd(i))
  /\ WF_vars(\E i \in CallIds : DebugSingleReturn(i))

SpecStderrFair == InitStderr /\ [][NextDebug]_vars /\ StdoutFairness

-----------------------------------------------------------------------------
(* The debug path, over the build-tool arguments of the runnable *)

FilterTokens ==
  {"--bin", "--lib", "--test", "--example", "--bench", "--package",
   "foo", "bar"}

FilterStreams ==
  { <<>>,
    <<GarbageLine, Artifact("lib", "bar", "/y"), Artifact("bin", "foo", "/x")>>,
    <<Artifact("test", "foo", "/t"), Artifact("bench", "--package", "/b"),
      Artifact("example", "bar", "/e")>> }

InitFilter ==
  /\ document = "wgsl"
  /\ heap \in [{1} -> { WebbyRunnable("debug", wa, <<"a">>, "/ws") :
                          wa \in SeqsUpTo(FilterTokens, MaxArgs) }]
  /\ config \in [startinsert : {FALSE},
                 runtime : {"termdebug", "vimspector", "nvim-dap", "gdb"}]
  /\ terminal = 0
  /\ terminals = <<>>
  /\ calls = [i \in {1} |-> IdleCall]
  /\ stdout \in FilterStreams
  /\ stderr = StderrStream
  /\ progress = <<>>
  /\ launches = <<>>
  /\ events = <<>>
  /\ NoUpdater

SpecFilter == InitFilter /\ [][NextDebug]_vars

-----------------------------------------------------------------------------
(* The commands: fetchRunnable, pickRunnable, run, debug, testCurrent,      *)
(* echoRunCommandLine                                                       *)

MaxRunnables == 2

\* String.prototype.startsWith
StartsWith(s, prefix) ==
  Len(s) >= Len(prefix) /\ SubSeq(s, 1, Len(prefix)) = prefix

\* what a command shows to the user or sends to the server
Event(i, by, type, text) ==
  [call |-> i, by |-> by, type |-> type, text |-> text]

\* the position of the last runnable of the list, from k on, with the test
\* prefix (0: none)
FindTestRunnable_Last(runnables, k) ==
  LET M == {j \in k .. Len(runnables) :
              StartsWith(heap[runnables[j]].label, "webby test")}
  IN  IF M = {} THEN 0 ELSE CHOOSE j \in M : \A m \in M : m <= j

\* runnables.find((run) => run.label.startsWith('webby test')), as a position
\* of the list from k on (0: undefined)
RECURSIVE FindTestRunnable(_, _)
FindTestRunnable(runnables, k) ==
  IF k > Len(runnables) THEN 0
  ELSE IF StartsWith(heap[runnables[k]].label, "webby test") THEN k
  ELSE FindTestRunnable(runnables, k + 1)

\* echoRunCommandLine's `commandLine`
EchoCommandLine(r) ==
  LET m    == MutateRunnable(r)
      args == IF r.kind = "webby"
              THEN IF Len(r.executableArgs) > 0
                   THEN r.webbyArgs \o <<"--">> \o m.executableArgs
                   ELSE r.webbyArgs
              ELSE r.args
  IN  Join(<<"webby">> \o args, " ")

\* a command is invoked and suspends in fetchRunnable at
\* `await workspace.getCurrentState()`
CommandCall(i, c) ==
  /\ calls[i].pc = "idle"
  /\ calls' = [calls EXCEPT ![i] = [@ EXCEPT !.op = "fetchRunnable",
                                             !.command = c,
                                             !.pc = "getCurrentState"]]
  /\ UNCHANGED <<document, heap, config, terminal, terminals, stdout, stderr,
                 progress, launches, events,
                 updater>>

\* what follows fetchRunnable, had testCurrent returned on an empty list as
\* pickRunnable does
CommandFetched_Silent(i, runnables, shown) ==
  IF Len(runnables) = 0
  THEN /\ events' = shown
       /\ calls' = [calls EXCEPT ![i] = [@ EXCEPT !.pc = "done",
                                                  !.runnables = runnables]]
  ELSE IF calls[i].command = "testCurrent"
  THEN LET k == FindTestRunnable(runnables, 1)
       IN  /\ events' = shown
           /\ calls' = [calls EXCEPT ![i] =
                          IF k = 0
                          THEN [@ EXCEPT !.pc = "done",
                                         !.runnables = runnables]
                          ELSE [@ EXCEPT !.op = "runSingle",
                                         !.pc = "getCurrentState",
                                         !.runnable = runnables[k],
                                         !.runnables = runnables]]
  ELSE /\ events' = Append(shown, Event(i, "pickRunnable", "showQuickpick",
                             Join([k \in DOMAIN runnables |->
                                     heap[runnables[k]].label], "|")))
       /\ calls' = [calls EXCEPT ![i] = [@ EXCEPT !.pc = "showQuickpick",
                                                  !.runnables = runnables]]

\* fetchRunnable has returned `runnables` to the command: testCurrent selects
\* the test runnable and calls runSingle, the other commands go on in
\* pickRunnable to `await window.showQuickpick(...)`; `shown` is what the
\* user has been shown so far
CommandFetched(i, runnables, shown) ==
  IF calls[i].command = "testCurrent"
  THEN IF Len(runnables) = 0
       THEN /\ events' = Append(shown, Event(i, "testCurrent",
                                             "showInformationMessage",
                                             "No runnables found"))
            /\ calls' = [calls EXCEPT ![i] = [@ EXCEPT !.pc = "done",
                                                       !.runnables = runnables]]
       ELSE LET k == FindTestRunnable(runnables, 1)
            IN  /\ events' = shown
                /\ calls' = [calls EXCEPT ![i] =
                               IF k = 0
                               THEN [@ EXCEPT !.pc = "done",
                                              !.runnables = runnables]
                               ELSE [@ EXCEPT !.op = "runSingle",
                                              !.pc = "getCurrentState",
                                              !.runnable = runnables[k],
                                              !.runnables = runnables]]
  ELSE IF Len(runnables) = 0
       THEN /\ events' = shown
            /\ calls' = [calls EXCEPT ![i] = [@ EXCEPT !.pc = "done",
                                                       !.runnables = runnables]]
       ELSE /\ events' = Append(shown, Event(i, "pickRunnable",
                                  "showQuickpick",
                                  Join([k \in DOMAIN runnables |->
                                          heap[runnables[k]].label], "|")))
            /\ calls' = [calls EXCEPT ![i] = [@ EXCEPT !.pc = "showQuickpick",
                                                       !.runnables = runnables]]

\* fetchRunnable, had the request been sent for every document
FetchRunnableGuard_NoGuard(i) ==
  /\ calls[i].op = "fetchRunnable"
  /\ calls[i].pc = "getCurrentState"
  /\ events' = events
        \o << Event(i, "fetchRunnable", "showInformationMessage",
                    "Fetching runnable..."),
              Event(i, "fetchRunnable", "sendRequest",
                    "experimental/runnables") >>
  /\ calls' = [calls EXCEPT ![i].pc = "sendRequest"]
  /\ UNCHANGED <<document, heap, config, terminal, terminals, stdout, stderr,
                 progress, launches, updater>>

\* fetchRunnable from its guard to `await ctx.client.sendRequest(...)`
FetchRunnableGuard(i) ==
  /\ calls[i].op = "fetchRunnable"
  /\ calls[i].pc = "getCurrentState"
  /\ IF document # "wgsl"
     THEN CommandFetched(i, <<>>, events)
     ELSE /\ events' = events
                \o << Event(i, "fetchRunnable", "showInformationMessage",
                            "Fetching runnable..."),
                      Event(i, "fetchRunnable", "sendRequest",
                            "experimental/runnables") >>
          /\ calls' = [calls EXCEPT ![i].pc = "sendRequest"]
  /\ UNCHANGED <<document, heap, config, terminal, terminals, stdout, stderr,
                 progress, launches, updater>>

\* the language server answers the runnables request
FetchRunnableResponse(i, runnables) ==
  /\ calls[i].op = "fetchRunnable"
  /\ calls[i].pc = "sendRequest"
  /\ CommandFetched(i, runnables, events)
  /\ UNCHANGED <<document, heap, config, terminal, terminals, stdout, stderr,
                 progress, launches, updater>>

\* the user answers the picker (idx = -1: cancelled); run and debug call
\* runSingle / debugSingle, echoRunCommandLine echoes the command line
PickRunnableAnswer(i, idx) ==
  /\ calls[i].op = "fetchRunnable"
  /\ calls[i].pc = "showQuickpick"
  /\ idx \in {-1} \cup (0 .. Len(calls[i].runnables) - 1)
  /\ IF idx = -1
     THEN /\ calls' = [calls EXCEPT ![i].pc = "done"]
          /\ UNCHANGED <<heap, events>>
     ELSE LET ref == calls[i].runnables[idx + 1]
          IN  CASE calls[i].command = "run" ->
                     /\ calls' = [calls EXCEPT ![i] =
                                    [@ EXCEPT !.op = "runSingle",
                                              !.pc = "getCurrentState",
                                              !.runnable = ref]]
                     /\ UNCHANGED <<heap, events>>
                [] calls[i].command = "debug" ->
                     /\ calls' = [calls EXCEPT ![i] =
                                    [@ EXCEPT !.op = "debugSingle",
                                              !.pc = "getCurrentState",
                                              !.runnable = ref]]
                     /\ UNCHANGED <<heap, events>>
                [] calls[i].command = "echoRunCommandLine" ->
                     /\ heap' = [heap EXCEPT ![ref] = MutateRunnable(@)]
                     /\ events' = Append(events,
                                         Event(i, "echoRunCommandLine",
                                               "echoLines",
                                               EchoCommandLine(heap[ref])))
                     /\ calls' = [calls EXCEPT ![i] =
                                    [@ EXCEPT !.op = "echoRunCommandLine",
                                              !.pc = "done",
                                              !.runnable = ref,
                                              !.entry = heap[ref]]]
  /\ UNCHANGED <<document, config, terminal, terminals, stdout, stderr,
                 progress, launches, updater>>

Commands == {"run", "debug", "testCurrent", "echoRunCommandLine"}

\* the runnables the language server knows
CommandRunnables ==
  << WebbyRunnable("webby run --bin app", <<"run", "--bin", "app">>, <<>>, "/ws"),
     WebbyRunnable("webby test --bin app", <<"test", "--bin", "app">>,
                   <<"t1", "--nocapture">>, "/ws/app"),
     WebbyRunnable("webby test --lib", <<"test", "--lib">>, <<>>, "/ws/lib"),
     ShellRunnable("sh run.sh", "sh", <<"run.sh">>, "/ws") >>

\* the terminal a finished runSingle of the first runnable has left open
OpenTerminal ==
  [opt |-> RunSingleOpt(CommandRunnables[1]), disposed |-> 0,
   sent |-> << RunSingleCmd(CommandRunnables[1],
                            RunSingleArgs(CommandRunnables[1])) >>]

InitCommand ==
  /\ document \in {"wgsl", "toml"}
  /\ heap = CommandRunnables
  /\ config = [startinsert |-> TRUE, runtime |-> "termdebug"]
  /\ \/ terminal = 0 /\ terminals = <<>>
     \/ terminal = 1 /\ terminals = <<OpenTerminal>>
  /\ calls = [i \in {1} |-> IdleCall]
  /\ stdout \in { <<GarbageLine>>, <<Artifact("bin", "app", "/x")>> }
  /\ stderr = StderrStream
  /\ progress = <<>>
  /\ launches = <<>>
  /\ events = <<>>
  /\ NoUpdater

\* the lists the language server can answer with: each runnable once
RunnableLists ==
  {l \in SeqsUpTo(DOMAIN heap, MaxRunnables) :
     \A j, k \in DOMAIN l : l[j] = l[k] => j = k}

NextCommand ==
  \/ \E i \in CallIds, c \in Commands : CommandCall(i, c)
  \/ \E i \in CallIds : FetchRunnableGuard(i)
  \/ \E i \in CallIds, runnables \in RunnableLists :
       FetchRunnableResponse(i, runnables)
  \/ \E i \in CallIds, idx \in -1 .. MaxRunnables : PickRunnableAnswer(i, idx)
  \/ \E i \in CallIds : RunSingleBuild(i)
  \/ \E i \in CallIds : RunSingleCreated(i)
  \/ \E i \in CallIds : RunSingleReturn(i)
  \/ \E i \in CallIds : DebugSingleSpawn(i)
  \/ \E i \in CallIds : DebugSingleLine(i)
  \/ \E i \in CallIds : DebugSingleEnd(i)
  \/ \E i \in CallIds : DebugSingleReturn(i)
  \/ \E i \in CallIds : StderrLine(i)

SpecCommand == InitCommand /\ [][NextCommand]_vars

-----------------------------------------------------------------------------
(* The server binary: resolveBin, startServer, serverVersion *)

Whitespace == {" ", "\t", "\n", "\r"}

\* String.prototype.trim
RECURSIVE Trim(_)
Trim(str) ==
  IF Len(str) = 0 THEN str
  ELSE IF SubSeq(str, 1, 1) \in Whitespace
  THEN Trim(SubSeq(str, 2, Len(str)))
  ELSE IF SubSeq(str, Len(str), Len(str)) \in Whitespace
  THEN Trim(SubSeq(str, 1, Len(str) - 1))
  ELSE str

ExecutableName(e) ==
  IF e.platform = "win32" THEN "wgsl-analyzer.exe" ELSE "wgsl-analyzer"

\* join(this.extCtx.storagePath, executableName)
BundledPath(e) == "storage/" \o ExecutableName(e)

\* which.sync(executableName, { nothrow: true })
SystemPath(e) == "/usr/bin/" \o ExecutableName(e)

\* resolveBin, had the system server been preferred to the bundled one
ResolveBin_SystemFirst(e) ==
  LET None == [bin |-> Undefined, marks |-> FALSE]
      bin  == IF e.serverPath # Undefined /\ e.configured # Undefined
              THEN e.configured
              ELSE BundledPath(e)
  IN  IF bin # BundledPath(e)
      THEN [bin |-> bin, marks |-> FALSE]
      ELSE IF e.system # Undefined
      THEN IF Len(Trim(e.versionStderr)) > 0
           THEN None
           ELSE [bin |-> e.system, marks |-> TRUE]
      ELSE IF e.bundled # Undefined
      THEN [bin |-> bin, marks |-> FALSE]
      ELSE None

\* resolveBin: the binary to run (Undefined: none), and whether
\* usingSystemServer is set
ResolveBin(e) ==
  LET None == [bin |-> Undefined, marks |-> FALSE]
      bin  == IF e.serverPath # Undefined /\ e.configured # Undefined
              THEN e.configured
              ELSE BundledPath(e)
      existsSync == bin # BundledPath(e) \/ e.bundled # Undefined
  IN  IF existsSync
      THEN [bin |-> bin, marks |-> FALSE]
      ELSE IF e.system # Undefined
      THEN IF Len(Trim(e.versionStderr)) > 0
           THEN None
           ELSE [bin |-> e.system, marks |-> TRUE]
      ELSE None

\* no lifecycle function is suspended at an await
Quiescent == update.pc \in {"idle", "done", "failed"}

\* the record of a new invocation
Begin(op, auto) ==
  [IdleUpdate EXCEPT !.op = op, !.auto = auto,
                     !.clientBefore = ctx.client,
                     !.releaseBefore = ctx.release,
                     !.bundledBefore = env.bundled]

\* startServer up to `await client.onReady()`
StartServerCall ==
  /\ Quiescent
  /\ ctx.client = "undefined"
  /\ LET r == ResolveBin(env)
     IN  /\ ctx' = [ctx EXCEPT !.usingSystemServer = @ \/ r.marks]
         /\ update' = [Begin("startServer", FALSE) EXCEPT
                         !.bin = r.bin,
                         !.pc = IF r.bin = Undefined THEN "done" ELSE "onReady"]
  /\ UNCHANGED <<env, runner>>

\* client.onReady() resolves: `this.client = client`
StartServerReady ==
  /\ update.op = "startServer"
  /\ update.pc = "onReady"
  /\ ctx' = [ctx EXCEPT !.client = "running"]
  /\ update' = [update EXCEPT !.pc = "done"]
  /\ UNCHANGED <<env, runner>>

\* the serverVersion command
ServerVersionCall ==
  /\ Quiescent
  /\ LET r == ResolveBin(env)
     IN  /\ ctx' = [ctx EXCEPT !.usingSystemServer = @ \/ r.marks]
         /\ update' = [Begin("serverVersion", FALSE) EXCEPT
                         !.bin = r.bin,
                         !.pc = "done",
                         !.log = IF r.bin = Undefined
                                 THEN <<"showErrorMessage">>
                                 ELSE <<"showInformationMessage">>]
  /\ UNCHANGED <<env, runner>>

-----------------------------------------------------------------------------
(* The server binary: checkUpdate, installServerFromGitHub, downloadServer *)

\* the release tags GitHub can answer with
Tags == {"v1", "v2"}

\* from the decision to download to the await of downloadServer; on win32
\* the client is stopped first
StartDownload(u) ==
  IF env.platform = "win32"
  THEN IF ctx.client = "undefined"
       THEN IF u.op = "install"
            THEN [u EXCEPT !.pc = "done",
                           !.log = Append(@, "showInformationMessage: failed")]
            ELSE [u EXCEPT !.pc = "failed", !.error = "TypeError"]
       ELSE [u EXCEPT !.pc = "stopBefore", !.log = Append(@, "stop")]
  ELSE [u EXCEPT !.pc = "downloadServer", !.log = Append(@, "downloadServer")]

\* checkUpdate, had only the configured path switched the check off
CheckUpdateCall_NoSystemGuard(auto) ==
  /\ Quiescent
  /\ update' = IF env.serverPath # Undefined
               THEN [Begin("checkUpdate", auto) EXCEPT !.pc = "done"]
               ELSE IF auto /\ ~env.checkOnStartup
               THEN [Begin("checkUpdate", auto) EXCEPT !.pc = "done"]
               ELSE [Begin("checkUpdate", auto) EXCEPT
                       !.pc = "getLatestRelease",
                       !.log = <<"getLatestRelease">>]
  /\ UNCHANGED <<ctx, env, runner>>

\* checkUpdate up to `await getLatestRelease(...)`
CheckUpdateCall(auto) ==
  /\ Quiescent
  /\ update' = IF env.serverPath # Undefined \/ ctx.usingSystemServer
               THEN [Begin("checkUpdate", auto) EXCEPT !.pc = "done"]
               ELSE IF auto /\ ~env.checkOnStartup
               THEN [Begin("checkUpdate", auto) EXCEPT !.pc = "done"]
               ELSE [Begin("checkUpdate", auto) EXCEPT
                       !.pc = "getLatestRelease",
                       !.log = <<"getLatestRelease">>]
  /\ UNCHANGED <<ctx, env, runner>>

\* installServerFromGitHub up to `await getLatestRelease(...)`
InstallCall ==
  /\ Quiescent
  /\ update' = [Begin("install", FALSE) EXCEPT
                  !.pc = "getLatestRelease",
                  !.log = <<"getLatestRelease">>]
  /\ UNCHANGED <<ctx, env, runner>>

\* getLatestRelease resolves, with a release or with undefined
LatestRelease(latest) ==
  /\ update.pc = "getLatestRelease"
  /\ LET old == IF ctx.release = Undefined
                THEN "unknown release" ELSE ctx.release
         u   == [update EXCEPT !.latest = latest, !.old = old]
     IN  update' =
           IF latest = Undefined
           THEN [update EXCEPT !.pc = "done"]
           ELSE IF update.op = "install"
           THEN StartDownload([update EXCEPT !.latest = latest])
           ELSE IF old = latest
           THEN [u EXCEPT !.pc = "done",
                          !.log = IF update.auto THEN @
                                  ELSE Append(@, "showInformationMessage: updated")]
           ELSE IF env.prompt = "true"
           THEN [u EXCEPT !.pc = "showQuickpick",
                          !.log = Append(@, "showQuickpick")]
           ELSE StartDownload(u)
  /\ UNCHANGED <<ctx, env, runner>>

\* the user answers checkUpdate's picker (-1: dismissed, 0: download,
\* 1: check GitHub releases, 2: cancel)
PromptAnswer(ret) ==
  /\ update.pc = "showQuickpick"
  /\ LET u == [update EXCEPT !.ret = ret]
     IN  update' = IF ret = 0 THEN StartDownload(u)
                  ELSE IF ret = 1
                  THEN [u EXCEPT !.pc = "open", !.log = Append(@, "vscode.open")]
                  ELSE [u EXCEPT !.pc = "done"]
  /\ UNCHANGED <<ctx, env, runner>>

\* `await this.client.stop()` ahead of the download resolves (win32)
ClientStopped ==
  /\ update.pc = "stopBefore"
  /\ ctx' = [ctx EXCEPT !.client = "stopped"]
  /\ update' = [update EXCEPT !.pc = "downloadServer",
                              !.log = Append(@, "downloadServer")]
  /\ UNCHANGED <<env, runner>>

\* the end of the update, had the caller not stored the release tag
UpdateFinish_NoStore ==
  /\ update.pc = "stopAfter"
  /\ ctx' = [ctx EXCEPT !.client = "running"]
  /\ update' = [update EXCEPT !.pc = "done", !.log = Append(@, "start")]
  /\ UNCHANGED <<env, runner>>

\* downloadServer returns or throws; on the other platforms than win32 it
\* has stored the release tag itself before it returns
DownloadDone(ok) ==
  /\ update.pc = "downloadServer"
  /\ IF ok
     THEN /\ env' = [env EXCEPT !.bundled = update.latest]
          /\ ctx' = IF env.platform = "win32" THEN ctx
                    ELSE [ctx EXCEPT !.release = update.latest]
          /\ update' = IF ctx.client = "undefined"
                       THEN [update EXCEPT !.downloaded = TRUE,
                                           !.pc = "failed",
                                           !.error = "TypeError"]
                       ELSE [update EXCEPT !.downloaded = TRUE,
                                           !.pc = "stopAfter",
                                           !.log = Append(@, "stop")]
     ELSE /\ update' = [update EXCEPT
                          !.pc = "done",
                          !.log = Append(@, "showInformationMessage: failed")]
          /\ UNCHANGED <<ctx, env>>
  /\ UNCHANGED runner

\* `await this.client.stop()` after the download resolves: the client is
\* started and the release tag stored
UpdateFinish ==
  /\ update.pc = "stopAfter"
  /\ ctx' = [ctx EXCEPT !.client = "running", !.release = update.latest]
  /\ update' = [update EXCEPT !.pc = "done", !.log = Append(@, "start")]
  /\ UNCHANGED <<env, runner>>

\* the command that opens the releases page resolves
OpenReleases ==
  /\ update.pc = "open"
  /\ update' = [update EXCEPT !.pc = "done"]
  /\ UNCHANGED <<ctx, env, runner>>

\* the run and debug commands are not used
NoRunner ==
  /\ document = "wgsl"
  /\ heap = <<>>
  /\ config = [startinsert |-> FALSE, runtime |-> "termdebug"]
  /\ terminal = 0
  /\ terminals = <<>>
  /\ calls = <<>>
  /\ stdout = <<>>
  /\ stderr = <<>>
  /\ progress = <<>>
  /\ launches = <<>>
  /\ events = <<>>

-----------------------------------------------------------------------------
(* resolveBin over the binaries on disk *)

\* what the system server's `--version` can write to stderr
VersionStderrs == {"", " \n", "error: no such option\n"}

InitResolve ==
  /\ NoRunner
  /\ ctx = [usingSystemServer |-> FALSE, client |-> "undefined",
            release |-> Undefined]
  /\ \E platform \in {"linux", "win32"},
        custom \in {<<Undefined, Undefined>>, <<"wa-custom", Undefined>>,
                    <<"wa-custom", "/opt/bin/wa-custom">>},
        bundled \in {Undefined, "v1"},
        system \in {<<FALSE, "">>} \cup ({TRUE} \X VersionStderrs) :
       LET e == [platform |-> platform, serverPath |-> custom[1],
                 prompt |-> "true", checkOnStartup |-> TRUE,
                 configured |-> custom[2], bundled |-> bundled,
                 system |-> Undefined, versionStderr |-> system[2]]
       IN  env = IF system[1] THEN [e EXCEPT !.system = SystemPath(e)] ELSE e
  /\ update = IdleUpdate

NextResolve ==
  \/ StartServerCall
  \/ StartServerReady
  \/ ServerVersionCall

SpecResolve == InitResolve /\ [][NextResolve]_vars

-----------------------------------------------------------------------------
(* checkUpdate and installServerFromGitHub, one call after the other *)

\* which server binaries are on disk when the extension is activated: the
\* configured one, the bundled one of release v1, the system one, or none
InitUpdate ==
  /\ NoRunner
  /\ \E platform \in {"linux", "win32"},
        prompt \in {"true", "false", "neverDownload"},
        checkOnStartup \in BOOLEAN,
        files \in {"configured", "bundled", "system", "none"} :
       LET e == [platform |-> platform, serverPath |-> Undefined,
                 prompt |-> prompt, checkOnStartup |-> checkOnStartup,
                 configured |-> Undefined, bundled |-> Undefined,
                 system |-> Undefined, versionStderr |-> ""]
       IN  /\ env = CASE files = "configured" ->
                           [e EXCEPT !.serverPath = "wa-custom",
                                     !.configured = "/opt/bin/wa-custom"]
                      [] files = "bundled" -> [e EXCEPT !.bundled = "v1"]
                      [] files = "system" -> [e EXCEPT !.system = SystemPath(e)]
                      [] OTHER -> e
           /\ ctx = [usingSystemServer |-> FALSE, client |-> "undefined",
                     release |-> IF files = "bundled" THEN "v1" ELSE Undefined]
  /\ update = IdleUpdate

NextUpdate ==
  \/ StartServerCall
  \/ StartServerReady
  \/ ServerVersionCall
  \/ \E auto \in BOOLEAN : CheckUpdateCall(auto)
  \/ InstallCall
  \/ \E latest \in {Undefined} \cup Tags : LatestRelease(latest)
  \/ \E ret \in -1 .. 2 : PromptAnswer(ret)
  \/ ClientStopped
  \/ \E ok \in BOOLEAN : DownloadDone(ok)
  \/ UpdateFinish
  \/ OpenReleases

SpecUpdate == InitUpdate /\ [][NextUpdate]_vars

-----------------------------------------------------------------------------
(* Properties of the run path (Spec) *)

\* the runSingle calls that have built their command line
RunBuilt == {i \in CallIds : calls[i].op = "runSingle"
                             /\ calls[i].entry.kind # "none"}

\* the runSingle calls that have sent their command line to a terminal
RunSent == {i \in RunBuilt : calls[i].term # 0}

(* C1: at no point do two terminals created by runSingle exist undisposed  *)
(* at the same time: every terminal but the one in the slot has been       *)
(* disposed, and none more than once.                                      *)
C1_SingleTerminal ==
  /\ Cardinality(Undisposed) <= 1
  /\ \A t \in DOMAIN terminals : terminals[t].disposed <= 1
  /\ \A t \in DOMAIN terminals : t # terminal => terminals[t].disposed = 1

(* C2: for a shell runnable the command line sent to the terminal is the   *)
(* runnable's program followed by its args joined with single spaces.      *)
C2_ShellCommandLine ==
  \A i \in RunSent :
    calls[i].entry.kind = "shell" =>
      terminals[calls[i].term].sent =
        << calls[i].entry.program \o " " \o Join(calls[i].entry.args, " ") >>

\* executableArgs with only its first element wrapped in single quotes
FirstWrapped(executableArgs) ==
  [k \in DOMAIN executableArgs |->
     IF k = 1 THEN "'" \o executableArgs[1] \o "'" ELSE executableArgs[k]]

(* C3: for a webby runnable the token list runSingle builds is webbyArgs   *)
(* when executableArgs is empty, and otherwise webbyArgs, then "--", then  *)
(* executableArgs with only its first element wrapped in single quotes     *)
(* (the runnable being the one runSingle reads when it builds the list).   *)
C3_WebbyTokens ==
  \A i \in RunBuilt :
    LET r == calls[i].entry
    IN  r.kind = "webby" =>
          calls[i].args =
            IF r.executableArgs = <<>>
            THEN r.webbyArgs
            ELSE r.webbyArgs \o <<"--">> \o FirstWrapped(r.executableArgs)

C3_Witness ==
  \E i, j \in RunSent :
    /\ calls[i].pc = "done" /\ calls[j].pc = "done"
    /\ calls[i].entry.kind = "webby" /\ calls[i].entry.executableArgs = <<>>
    /\ calls[j].entry.kind = "webby" /\ Len(calls[j].entry.executableArgs) = 2

-----------------------------------------------------------------------------
(* Properties of the debug path (SpecDebug, SpecFilter) *)

\* the debugSingle calls that have spawned the build tool
DebugSpawned == {i \in CallIds : calls[i].op = "debugSingle" /\ calls[i].spawned}

\* the debugSingle calls whose scan of stdout is over
DebugScanned == {i \in DebugSpawned : calls[i].pc \in {"launch", "done", "failed"}}

KindFlags == {"--bin", "--lib", "--test", "--example", "--bench"}

FlagTag ==
  [f \in KindFlags |->
     CASE f = "--bin" -> "bin" [] f = "--lib" -> "lib" [] f = "--test" -> "test"
       [] f = "--example" -> "example" [] f = "--bench" -> "bench"]

\* the positions of the kind flags in webbyArgs
FlagPositions(webbyArgs) == {k \in DOMAIN webbyArgs : webbyArgs[k] \in KindFlags}

FirstFlag(webbyArgs) ==
  CHOOSE k \in FlagPositions(webbyArgs) :
    \A l \in FlagPositions(webbyArgs) : k <= l

C5_PackageOnlyForLib ==
  \A i \in DebugSpawned :
    LET wa == calls[i].entry.webbyArgs
    IN  (FlagPositions(wa) # {} /\ wa[FirstFlag(wa)] # "--lib") =>
          calls[i].expectedName =
            IF FirstFlag(wa) < Len(wa) THEN wa[FirstFlag(wa) + 1] ELSE Undefined

\* a line that is a compiler-artifact message passing both filters and
\* carrying a non-empty executable
Qualifies(line, expectedKind, expectedName) ==
  /\ line.raw = "json"
  /\ line.json.type = "object"
  /\ line.json.reason = "compiler-artifact"
  /\ expectedKind # Undefined =>
       line.json.target.present /\ Includes(line.json.target.kind, expectedKind)
  /\ expectedName # Undefined =>
       line.json.target.present /\ line.json.target.name = expectedName
  /\ line.json.executable \notin {Undefined, ""}

QualifyingLines(i) ==
  {k \in DOMAIN stdout :
     Qualifies(stdout[k], calls[i].expectedKind, calls[i].expectedName)}

(* C6: debugSingle resolves the executable of the first line of stdout, in *)
(* stream order, that is a compiler-artifact message passing both filters  *)
(* with a non-empty executable, whatever the lines after it are.           *)
C6_FirstQualifying ==
  \A i \in DebugScanned :
    QualifyingLines(i) # {} =>
      \E k \in QualifyingLines(i) :
        /\ \A l \in QualifyingLines(i) : k <= l
        /\ calls[i].executable = stdout[k].json.executable

(* C7: the executable of every debugger launch was taken from a stdout     *)
(* message whose reason is compiler-artifact, whose target.kind contains   *)
(* expectedKind when it is set, and whose target.name is expectedName when *)
(* it is set; an unset filter accepts any kind or name: no line read that  *)
(* is an artifact with an executable is passed over on account of a filter *)
(* that is not set.                                                        *)
C7_LaunchedFromArtifact ==
  /\ \A n \in DOMAIN launches :
       LET i    == launches[n].call
           line == stdout[calls[i].pos]
       IN  /\ calls[i].pos \in DOMAIN stdout
           /\ line.raw = "json"
           /\ line.json.reason = "compiler-artifact"
           /\ line.json.executable = launches[n].executable
           /\ calls[i].expectedKind # Undefined =>
                Includes(line.json.target.kind, calls[i].expectedKind)
           /\ calls[i].expectedName # Undefined =>
                line.json.target.name = calls[i].expectedName
  /\ \A i \in DebugSpawned :
       \A k \in 1 .. calls[i].pos :
         ( /\ calls[i].expectedKind = Undefined
           /\ calls[i].expectedName = Undefined
           /\ stdout[k].raw = "json"
           /\ stdout[k].json.reason = "compiler-artifact"
           /\ stdout[k].json.executable \notin {Undefined, ""} ) =>
           k = calls[i].pos /\ calls[i].executable = stdout[k].json.executable

C7_Witness ==
  \E n \in DOMAIN launches :
    /\ calls[launches[n].call].expectedKind = "bin"
    /\ calls[launches[n].call].expectedName = "foo"
    /\ calls[launches[n].call].pos = 3
    /\ launches[n].executable = "/x"

(* C8: when stdout holds no compiler-artifact message passing the filter   *)
(* with a non-empty executable, debugSingle fails with 'Could not find     *)
(* executable' and launches no debugger.                                   *)
C8_CouldNotFindExecutable ==
  \A i \in DebugScanned :
    QualifyingLines(i) = {} =>
      /\ calls[i].pc = "failed"
      /\ calls[i].error = "Could not find executable"
      /\ \A n \in DOMAIN launches : launches[n].call # i

\* the lines that parse as JSON
Parseable(lines) == SelectSeq(lines, LAMBDA line : JSONParse(line).ok)

(* C9: the outcome of debugSingle's scan (the resolved executable, or the  *)
(* error) is its outcome on the same lines with the unparseable ones       *)
(* removed.                                                                *)
C9_UnparseableSkipped ==
  \A i \in DebugScanned :
    LET ref == ScanFrom(Parseable(stdout), 1,
                        calls[i].expectedKind, calls[i].expectedName)
    IN  /\ calls[i].executable = ref.executable
        /\ ref.outcome = "error" => calls[i].error = ref.error
        /\ ref.outcome = "resolved" =>
             calls[i].error \in {"", "Invalid debug runtime"}

C9_Witness ==
  \E i \in DebugScanned :
    /\ calls[i].executable # Undefined
    /\ calls[i].pos = 3
    /\ stdout[1] = GarbageLine
    /\ stdout[2] = BlankLine

(* C10: a stdout line that parses as JSON and whose reason is not          *)
(* compiler-artifact never makes debugSingle fail.                         *)
C10_NonArtifactSkipped ==
  \A i \in DebugScanned :
    (calls[i].pc = "failed" /\ calls[i].error = "TypeError") =>
      ~ ( /\ JSONParse(stdout[calls[i].pos]).ok
          /\ stdout[calls[i].pos].json.reason # "compiler-artifact" )

\* the debugger launch calls a call has made
LaunchesOf(i) == {n \in DOMAIN launches : launches[n].call = i}

\* the launch routine of each recognized debug runtime
LaunchRoutine ==
  [runtime \in {"termdebug", "vimspector", "nvim-dap"} |->
     CASE runtime = "termdebug" -> "TermdebugCommand"
       [] runtime = "vimspector" -> "vimspector#LaunchWithSettings"
       [] runtime = "nvim-dap" -> "dap.run"]

(* C11: a debugSingle call that has resolved an executable makes exactly   *)
(* one debugger launch, the one of the configured runtime, when the        *)
(* runtime is termdebug, vimspector or nvim-dap; for any other value it    *)
(* fails with 'Invalid debug runtime' and makes no launch call.            *)
C11_RuntimeDispatch ==
  \A i \in DebugSpawned :
    /\ calls[i].executable # Undefined =>
         IF config.runtime \in DOMAIN LaunchRoutine
         THEN /\ Cardinality(LaunchesOf(i)) = 1
              /\ \A n \in LaunchesOf(i) :
                   /\ launches[n].via = LaunchRoutine[config.runtime]
                   /\ launches[n].executable = calls[i].executable
              /\ calls[i].pc \in {"launch", "done"}
         ELSE /\ LaunchesOf(i) = {}
              /\ calls[i].pc = "failed"
              /\ calls[i].error = "Invalid debug runtime"
    /\ calls[i].executable = Undefined => LaunchesOf(i) = {}

C11_Witness ==
  \E i \in DebugSpawned :
    /\ calls[i].executable = "/x"
    /\ config.runtime = "gdb"
    /\ calls[i].error = "Invalid debug runtime"

\* the calls in which runSingle, debugSingle or echoRunCommandLine has read
\* its runnable
Built == {i \in CallIds : calls[i].entry.kind # "none"}

(* C12: runSingle, debugSingle and echoRunCommandLine leave the runnable   *)
(* they receive unchanged: every field of it has the value it had on       *)
(* entry.                                                                  *)
C12_RunnableUnchanged ==
  \A i \in Built :
    (\A j \in Built : calls[j].runnable = calls[i].runnable => j = i) =>
      heap[calls[i].runnable] = calls[i].entry

(* C13: the terminal runSingle creates is created with the runnable's cwd  *)
(* and the runnable's environment, and the command line is sent to that    *)
(* terminal.                                                               *)
C13_TerminalOptions ==
  \A i \in RunSent :
    LET t == terminals[calls[i].term]
    IN  /\ t.sent = <<calls[i].cmd>>
        /\ t.opt.cwd = calls[i].entry.cwd
        /\ "env" \in DOMAIN t.opt
        /\ t.opt.env = calls[i].entry.environment

\* the token list of the run path
RunTokens(r) ==
  IF r.executableArgs = <<>>
  THEN r.webbyArgs
  ELSE r.webbyArgs \o <<"--">> \o FirstWrapped(r.executableArgs)

(* C14: for a webby runnable, debugSingle's argument list is the run-path  *)
(* token list with `--no-run` appended when its first token is `test`,     *)
(* with its first token replaced by `build` when it is `run`, and with     *)
(* `--message-format=json` appended in every case.                         *)
C14_DebugArgs ==
  \A i \in DebugSpawned :
    LET r      == calls[i].entry
        tokens == RunTokens(r)
        first  == IF tokens = <<>> THEN Undefined ELSE tokens[1]
    IN  r.kind = "webby" =>
          calls[i].args =
            CASE first = "test" ->
                   tokens \o <<"--no-run", "--message-format=json">>
              [] first = "run" ->
                   <<"build">> \o Tail(tokens) \o <<"--message-format=json">>
              [] OTHER -> tokens \o <<"--message-format=json">>

C14_Witness ==
  \E i \in DebugSpawned :
    /\ calls[i].entry.webbyArgs = <<"run", "--bin", "foo">>
    /\ calls[i].args = <<"build", "--bin", "foo", "--", "'a'",
                         "--message-format=json">>

(* C15: for a shell runnable whose args begin with `test` or `run`,        *)
(* debugSingle neither appends `--no-run` nor replaces the first token     *)
(* with `build`.                                                           *)
C15_ShellNotRewritten ==
  \A i \in DebugSpawned :
    LET r == calls[i].entry
    IN  (r.kind = "shell" /\ r.args # <<>> /\ r.args[1] \in {"test", "run"}) =>
          /\ calls[i].args[1] = r.args[1]
          /\ ~Includes(calls[i].args, "--no-run")

(* C16: the argument string debugSingle passes to the debugger is the      *)
(* webby runnable's executableArgs as received, joined with single spaces, *)
(* and the empty string for a shell runnable.                              *)
C16_DebuggerArgs ==
  \A n \in DOMAIN launches :
    LET r == calls[launches[n].call].entry
    IN  launches[n].args =
          IF r.kind = "webby" THEN Join(r.executableArgs, " ") ELSE ""

\* debugSingle's outcome as determined by the stdout lines, the filter and
\* the configured runtime
StdoutOutcome(i) ==
  LET scan == ScanFrom(stdout, 1, calls[i].expectedKind, calls[i].expectedName)
  IN  IF scan.outcome = "error"
      THEN [executable |-> Undefined, error |-> scan.error, via |-> {}]
      ELSE IF config.runtime \in DOMAIN LaunchRoutine
      THEN [executable |-> scan.executable, error |-> "",
            via |-> {LaunchRoutine[config.runtime]}]
      ELSE [executable |-> scan.executable, error |-> "Invalid debug runtime",
            via |-> {}]

(* C17: for a fixed stdout line sequence, debugSingle's outcome (resolved  *)
(* executable, debugger launched, or error) is the same for every stderr   *)
(* content and every interleaving of stderr lines with stdout lines.       *)
C17_StderrObservational ==
  \A i \in DebugScanned :
    /\ calls[i].executable = StdoutOutcome(i).executable
    /\ calls[i].error = StdoutOutcome(i).error
    /\ {launches[n].via : n \in LaunchesOf(i)} = StdoutOutcome(i).via
    /\ Cardinality(LaunchesOf(i)) <= 1

C17_Witness ==
  \E i \in DebugScanned :
    /\ calls[i].errPos = 1
    /\ Len(stderr) = MaxLines
    /\ progress = <<"error: could not compile">>
    /\ calls[i].executable = "/x"
    /\ LaunchesOf(i) # {}

\* the calls whose command returned because a precondition was not met: the
\* document is not a wgsl document, the runnable list is empty, or the
\* picker was cancelled
Unmet ==
  {i \in CallIds :
     /\ calls[i].command \in {"run", "debug", "testCurrent"}
     /\ calls[i].op = "fetchRunnable"
     /\ calls[i].pc = "done"
     /\ \/ document # "wgsl"
        \/ calls[i].runnables = <<>>
        \/ calls[i].command \in {"run", "debug"}}

\* no terminal created or disposed, no process spawned, no debugger launched
NoEffect(i) ==
  /\ terminals \in {<<>>, <<OpenTerminal>>}
  /\ terminal = Len(terminals)
  /\ ~calls[i].spawned
  /\ LaunchesOf(i) = {}

\* what call i has told the user, the notification and the picker of a
\* fetch in progress apart
Reports(i) ==
  {events[n].text : n \in {m \in DOMAIN events :
                             /\ events[m].call = i
                             /\ events[m].by \notin {"fetchRunnable",
                                                     "pickRunnable"}}}

(* C18 as stated: when a precondition is not met, run, debug and           *)
(* testCurrent return as a silent no-op: no terminal created or disposed,  *)
(* no process spawned, no debugger launched, nothing reported to the user  *)
(* about the unmet precondition.                                           *)
C18_SilentNoOp ==
  \A i \in Unmet : NoEffect(i) /\ Reports(i) = {}

(* C18, amended: when a precondition is not met, run, debug and            *)
(* testCurrent create and dispose no terminal, spawn no process and launch *)
(* no debugger; run and debug report nothing, and testCurrent shows the    *)
(* information message 'No runnables found' when the list it got is empty  *)
(* (which includes the case of a document that is not a wgsl document).    *)
C18_NoOpTestCurrentReports ==
  \A i \in Unmet :
    /\ NoEffect(i)
    /\ Reports(i) = IF calls[i].command = "testCurrent"
                    THEN {"No runnables found"} ELSE {}

C18_Witness ==
  \E i \in Unmet :
    /\ calls[i].command = "testCurrent"
    /\ document = "toml"
    /\ terminal = 1
    /\ events = << Event(i, "testCurrent", "showInformationMessage",
                         "No runnables found") >>

\* the positions in `events` of what fetchRunnable did in call i
FetchEvents(i, type) ==
  {n \in DOMAIN events : /\ events[n].call = i
                         /\ events[n].by = "fetchRunnable"
                         /\ events[n].type = type}

\* the calls in which fetchRunnable is past its guard
Fetching ==
  {i \in CallIds : /\ calls[i].command # "none"
                   /\ ~(calls[i].op = "fetchRunnable"
                        /\ calls[i].pc = "getCurrentState")}

(* C19: fetchRunnable issues at most one runnables request per invocation: *)
(* none, returning an empty list and showing no notification, when the     *)
(* active document is not a wgsl document; exactly one otherwise, with the *)
(* 'Fetching runnable...' notification emitted before the request is sent. *)
C19_OneRequest ==
  \A i \in CallIds :
    /\ Cardinality(FetchEvents(i, "sendRequest")) <= 1
    /\ i \in Fetching =>
         IF document # "wgsl"
         THEN /\ FetchEvents(i, "sendRequest") = {}
              /\ FetchEvents(i, "showInformationMessage") = {}
              /\ calls[i].runnables = <<>>
              /\ calls[i].pc = "done"
         ELSE /\ Cardinality(FetchEvents(i, "sendRequest")) = 1
              /\ \A n \in FetchEvents(i, "sendRequest") :
                   \E m \in FetchEvents(i, "showInformationMessage") :
                     /\ m < n
                     /\ events[m].text = "Fetching runnable..."

C19_Witness ==
  \E i \in Fetching :
    /\ document = "wgsl"
    /\ calls[i].pc = "sendRequest"
    /\ FetchEvents(i, "sendRequest") = {2}
    /\ FetchEvents(i, "showInformationMessage") = {1}

\* the positions of the list testCurrent got whose label has the test prefix
TestPositions(i) ==
  {k \in DOMAIN calls[i].runnables :
     StartsWith(CommandRunnables[calls[i].runnables[k]].label, "webby test")}

\* the calls of testCurrent that have the server's list
TestFetched ==
  {i \in CallIds : /\ calls[i].command = "testCurrent"
                   /\ calls[i].op # "fetchRunnable" \/ calls[i].pc = "done"}

\* the terminals created since the command was invoked
NewTerminals ==
  {t \in DOMAIN terminals :
     ~(t = 1 /\ terminals[t].opt = OpenTerminal.opt
             /\ terminals[t].sent = OpenTerminal.sent)}

(* C20: testCurrent runs the first runnable, in the order returned by the  *)
(* server, whose label begins with 'webby test', runs exactly that one,    *)
(* and runs nothing when no label matches; the runnable list is not        *)
(* modified by the selection.                                              *)
C20_FirstTestRunnable ==
  \A i \in TestFetched :
    IF TestPositions(i) = {}
    THEN /\ calls[i].op = "fetchRunnable"
         /\ calls[i].runnable = 0
         /\ NoEffect(i)
    ELSE LET k == CHOOSE j \in TestPositions(i) :
                    \A m \in TestPositions(i) : j <= m
             first == calls[i].runnables[k]
         IN  /\ calls[i].op = "runSingle"
             /\ calls[i].runnable = first
             /\ calls[i].pc = "getCurrentState" => heap = CommandRunnables
             /\ Cardinality(NewTerminals) <= 1
             /\ \A t \in NewTerminals :
                  /\ terminals[t].opt.name = CommandRunnables[first].label
                  /\ calls[i].term \in {0, t}
             /\ calls[i].pc = "done" => NewTerminals = {calls[i].term}

C20_Witness ==
  \E i \in TestFetched :
    /\ calls[i].runnables = <<3, 2>>
    /\ calls[i].pc = "done"
    /\ NewTerminals = {2}
    /\ terminals[2].opt.name = "webby test --lib"
    /\ terminals[2].sent = <<"webby test --lib">>

(* C24: running the same runnable object twice is idempotent with respect  *)
(* to the command line: for a webby runnable with non-empty executableArgs *)
(* the second runSingle call builds the same token list as the first, the  *)
(* first executable argument wrapped in exactly one pair of single quotes. *)
C24_SameTokensTwice ==
  \A i, j \in RunBuilt :
    (/\ calls[i].runnable = calls[j].runnable
     /\ calls[i].entry.kind = "webby"
     /\ calls[i].entry.executableArgs # <<>>) =>
      calls[i].args = calls[j].args

(* C25: in every argument list debugSingle builds for a webby runnable,    *)
(* neither `--no-run` nor `--message-format=json` is positioned after a    *)
(* `--` separator token, also when executableArgs is non-empty.            *)
C25_FlagsBeforeSeparator ==
  \A i \in DebugSpawned :
    calls[i].entry.kind = "webby" =>
      \A k \in DOMAIN calls[i].args :
        calls[i].args[k] \in {"--no-run", "--message-format=json"} =>
          \A m \in 1 .. k - 1 : calls[i].args[m] # "--"

\* the command lines echoRunCommandLine has shown in call i
Echoed(i) ==
  {events[n].text : n \in {m \in DOMAIN events :
                             /\ events[m].call = i
                             /\ events[m].type = "echoLines"}}

(* C26: for every runnable, webby or shell, the command line shown by      *)
(* echoRunCommandLine is the command line runSingle would send to the      *)
(* terminal for that runnable.                                             *)
C26_EchoIsRunCommand ==
  \A i \in CallIds :
    calls[i].op = "echoRunCommandLine" =>
      Echoed(i) = { RunSingleCmd(calls[i].entry, RunSingleArgs(calls[i].entry)) }

\* the build tool's stdout has been read to its end in call i
StdoutEnded(i) == calls[i].spawned /\ calls[i].pos = Len(stdout)

\* debugSingle has launched the debugger or failed with an error
Completed(i) ==
  \/ calls[i].pc \in {"launch", "done"} /\ LaunchesOf(i) # {}
  \/ calls[i].pc = "failed" /\ calls[i].error # ""

(* C27: once the build tool's stdout ends, debugSingle eventually          *)
(* completes, by launching a debugger or by failing with an error, whether *)
(* or not the stderr stream is still producing lines: it never waits on    *)
(* the stderr reader.                                                      *)
C27_CompletesAfterStdout ==
  (\E i \in CallIds : StdoutEnded(i)) ~> (\E i \in CallIds : Completed(i))

C27_Witness ==
  \E i \in CallIds :
    /\ StdoutEnded(i)
    /\ Completed(i)
    /\ calls[i].error = "Could not find executable"
    /\ Len(stderr) = MaxLines
    /\ calls[i].errPos = 0

-----------------------------------------------------------------------------
(* Properties of the server binary's lifecycle (SpecResolve, SpecUpdate) *)

\* the calls of checkUpdate that went as far as deciding to download
Downloading ==
  /\ update.op = "checkUpdate"
  /\ \/ Includes(update.log, "downloadServer")
     \/ update.pc = "stopBefore"

(* C21: checkUpdate downloads a new server only with consent under the     *)
(* updates.prompt setting: with prompt = true only after the user picks    *)
(* 'Yes, download' (entry 0 of the picker), and with 'neverDownload'       *)
(* never.                                                                  *)
C21_DownloadWithConsent ==
  Downloading =>
    /\ env.prompt = "true" =>
         Includes(update.log, "showQuickpick") /\ update.ret = 0
    /\ env.prompt # "neverDownload"

(* C22: when a custom server path is configured, or when resolveBin has    *)
(* selected the system-installed server, checkUpdate (automatic or manual) *)
(* performs no release lookup, shows no prompt, downloads nothing, and     *)
(* leaves the stored release tag and the language client untouched.        *)
C22_NoUpdateForCustomOrSystem ==
  (/\ update.op = "checkUpdate"
   /\ env.serverPath # Undefined \/ ctx.usingSystemServer) =>
    /\ update.pc = "done"
    /\ update.log = <<>>
    /\ ~update.downloaded
    /\ env.bundled = update.bundledBefore
    /\ ctx.release = update.releaseBefore
    /\ ctx.client = update.clientBefore

C22_Witness ==
  /\ update.op = "checkUpdate"
  /\ ~update.auto
  /\ ctx.usingSystemServer
  /\ env.serverPath = Undefined
  /\ ctx.client = "running"
  /\ update.pc = "done"

\* resolveBin has returned in the current call
Resolved == update.op \in {"startServer", "serverVersion"}

ConfiguredFound == env.serverPath # Undefined /\ env.configured # Undefined

\* the string holds a character that is not whitespace
NonBlank(str) ==
  \E k \in 1 .. Len(str) : SubSeq(str, k, k) \notin Whitespace

\* the priority of resolveBin, but for what the system server's `--version`
\* writes to stderr
ResolvePriority ==
  /\ ConfiguredFound => update.bin = env.configured
  /\ (~ConfiguredFound /\ env.bundled # Undefined) =>
       update.bin = BundledPath(env)
  /\ update.bin = SystemPath(env) =>
       ~ConfiguredFound /\ env.bundled = Undefined /\ env.system # Undefined
  /\ ctx.usingSystemServer <=> update.bin = SystemPath(env)
  /\ (~ConfiguredFound /\ env.bundled = Undefined /\ env.system = Undefined) =>
       update.bin = Undefined

(* C23 as stated: resolveBin follows the priority configured path, bundled *)
(* binary, system-installed server, marks usingSystemServer only when it   *)
(* returns the system binary, and returns undefined when the system        *)
(* binary's `--version` writes to stderr or no binary is found.            *)
C23_ResolvePriority ==
  Resolved =>
    /\ ResolvePriority
    /\ (~ConfiguredFound /\ env.bundled = Undefined /\ env.system # Undefined
          /\ env.versionStderr # "") =>
         update.bin = Undefined

(* C23, amended: as stated, except that resolveBin returns undefined when  *)
(* the system binary's `--version` writes anything but whitespace to       *)
(* stderr; when it writes nothing or only whitespace, the system binary is *)
(* returned and usingSystemServer is marked.                               *)
C23_ResolvePriorityTrimmed ==
  Resolved =>
    /\ ResolvePriority
    /\ (~ConfiguredFound /\ env.bundled = Undefined /\ env.system # Undefined) =>
         IF NonBlank(env.versionStderr)
         THEN update.bin = Undefined
         ELSE update.bin = env.system /\ ctx.usingSystemServer

C23_Witness ==
  /\ Resolved
  /\ env.serverPath # Undefined
  /\ env.configured = Undefined
  /\ env.bundled = Undefined
  /\ env.versionStderr = " \n"
  /\ update.bin = SystemPath(env)
  /\ ctx.usingSystemServer

\* a call of checkUpdate or installServerFromGitHub has returned or thrown
Updated == Quiescent /\ update.op \in {"checkUpdate", "install"}

(* C28: after any sequence of checkUpdate and installServerFromGitHub      *)
(* calls the stored 'release' tag is the tag of the most recent release    *)
(* whose download completed; a call whose download fails, is declined or   *)
(* is skipped leaves the stored tag unchanged, and a checkUpdate that sees *)
(* the stored tag as the latest one downloads nothing.                     *)
C28_StoredTag ==
  /\ Quiescent => ctx.release = env.bundled
  /\ (Updated /\ ~update.downloaded) => ctx.release = update.releaseBefore
  /\ (update.op = "checkUpdate" /\ update.latest # Undefined
        /\ update.latest = update.old) =>
       /\ ~Includes(update.log, "downloadServer")
       /\ update.pc = "done"

C28_Witness ==
  /\ Updated
  /\ env.platform = "win32"
  /\ update.op = "checkUpdate"
  /\ update.downloaded
  /\ update.releaseBefore = "v1"
  /\ ctx.release = "v2"
  /\ env.bundled = "v2"

(* C29: a failed install or upgrade never leaves the language server       *)
(* stopped: on every platform, if the client was running before            *)
(* installServerFromGitHub or checkUpdate and the download fails, the      *)
(* client is running again when the call returns.                          *)
C29_RunningAfterFailure ==
  (/\ Updated
   /\ update.clientBefore = "running"
   /\ Includes(update.log, "showInformationMessage: failed")) =>
    ctx.client = "running"

====
